---- MODULE Spec2Model ----
(***************************************************************************)
(* Postal-code to weather-area reconciliation of hatake2k-be:              *)
(* src/app/services/postal_code_weather_mapping_service.py                 *)
(*                                                                         *)
(* Text.  A place name is a sequence of one-character tokens.  The module  *)
(* is ASCII, so every character of the source's literals is written as a   *)
(* romanised token; the same character is always the same token:           *)
(*   "shi" city designator (U+5E02)    "ku"  ward designator (U+533A)      *)
(*   "gun" county designator (U+90E1)  "cho" town (U+753A)                 *)
(*   "son" village (U+6751)            "KE"  large katakana ke (U+30B1)    *)
(*   "ke"  small katakana ke (U+30F6)  "%" "_"  the SQL LIKE wildcards     *)
(* A prefecture is only ever compared for equality and is one string.      *)
(*                                                                         *)
(* Session.  db is the committed weather_area_id column of postal_codes;   *)
(* mem is the attribute as the session's loaded objects hold it            *)
(* (assignments not yet committed).  commit() makes mem the committed      *)
(* state; rollback() expires the objects, so mem falls back to db.         *)
(*                                                                         *)
(* Failures.  The select of the backlog, a call of the matcher and a       *)
(* commit may each raise.  A matcher failure leaves the session as it was; *)
(* the statements of the two except clauses (logging, rollback) and the    *)
(* reload of expired objects do not raise.  Within one call every select  *)
(* returns rows in one order, the order of the table sequence.  No query   *)
(* has an ORDER BY, so that order need not be the import order: a row's id *)
(* tells its place in the import order.                                    *)
(***************************************************************************)
EXTENDS Integers, Sequences, FiniteSets, TLC

\* postal_code.py:21  weather_area_id: Optional[int] = Field(default=None,..)
NULL == 0

\* "no row" of .first() / return None of the matcher helpers (an index)
NoRow == 0

\* _remove_county_prefix returns None when the pattern does not match
NoName == <<"<None>">>

(***************************************************************************)
(* String primitives                                                       *)
(***************************************************************************)
\* Python  a in b  for strings: a occurs in b as a contiguous substring
Contains(b, a) ==
    \E k \in 0..(Len(b) - Len(a)) : SubSeq(b, k + 1, k + Len(a)) = a

\* SQL  s LIKE p : "%" any run of characters, "_" any one character
RECURSIVE LikeMatch(_, _)
LikeMatch(s, p) ==
    IF p = <<>> THEN s = <<>>
    ELSE IF Head(p) = "%"
         THEN LikeMatch(s, Tail(p)) \/ (s # <<>> /\ LikeMatch(Tail(s), p))
         ELSE /\ s # <<>>
              /\ (Head(p) = "_" \/ Head(p) = Head(s))
              /\ LikeMatch(Tail(s), Tail(p))

\* WeatherArea.city.like(f"%{name}%")
LikeContains(city, name) == LikeMatch(city, <<"%">> \o name \o <<"%">>)

Max(S) == CHOOSE x \in S : \A y \in S : y <= x

\* positions of character c in s
Positions(s, c) == {k \in 1..Len(s) : s[k] = c}

(***************************************************************************)
(* Normalizer                                                              *)
(***************************************************************************)
\* re.match(r'(.+shi)(.+ku)$', s): the greedy first group ends at the last
\* "shi" that leaves at least two characters, the last of them "ku"
WardSplitUnanchored(s) ==
    {k \in Positions(s, "shi") :
        k >= 2 /\ \E r \in Positions(s, "ku") : r >= k + 2}
WardSplit(s) ==
    IF Len(s) >= 4 /\ s[Len(s)] = "ku"
    THEN {k \in Positions(s, "shi") : k >= 2 /\ k <= Len(s) - 2}
    ELSE {}

NormalizeCityNameUnchanged(city_name) == city_name
NormalizeCityName(city_name) ==
    IF WardSplit(city_name) # {}
    THEN SubSeq(city_name, 1, Max(WardSplit(city_name)))
    ELSE city_name

\* re.match(r'.+gun(.+[cho son shi])$', s): group 1 starts after the last
\* "gun" that leaves at least two characters, the last a town, village or
\* city designator
CountySplit(s) ==
    IF Len(s) >= 4 /\ s[Len(s)] \in {"cho", "son", "shi"}
    THEN {k \in Positions(s, "gun") : k >= 2 /\ k <= Len(s) - 2}
    ELSE {}

RemoveCountyPrefixUnchanged(city_name) ==
    IF CountySplit(city_name) # {}
    THEN SubSeq(city_name, Max(CountySplit(city_name)) + 1, Len(city_name))
    ELSE city_name
RemoveCountyPrefix(city_name) ==
    IF CountySplit(city_name) # {}
    THEN SubSeq(city_name, Max(CountySplit(city_name)) + 1, Len(city_name))
    ELSE NoName

\* city_name.replace(KE, ke)
NormalizeCharacterVariants(city_name) ==
    [k \in 1..Len(city_name) |->
        IF city_name[k] = "KE" THEN "ke" ELSE city_name[k]]

(***************************************************************************)
(* Row selection.  A weather_areas table is a sequence of rows             *)
(* [id, prefecture, city] in row order; .first() and .all() return rows in *)
(* that order.  Rows are named by their position in the table.             *)
(***************************************************************************)
Min(S) == CHOOSE x \in S : \A y \in S : x <= y

\* .first() / the first hit of a for loop: the least position, or NoRow
First(S) == IF S = {} THEN NoRow ELSE Min(S)

\* select(WeatherArea).where(WeatherArea.prefecture == prefecture).all()
InPrefectureAny(was, prefecture) == 1..Len(was)
InPrefecture(was, prefecture) ==
    {k \in 1..Len(was) : was[k].prefecture = prefecture}

\* select(...).where(prefecture == ..., city == name).first()
ExactFirst(was, prefecture, name) ==
    First({k \in InPrefecture(was, prefecture) : was[k].city = name})

\* select(...).where(prefecture == ..., city.like(f"%{name}%")).first()
LikeFirst(was, prefecture, name) ==
    First({k \in InPrefecture(was, prefecture) : LikeContains(was[k].city, name)})

(***************************************************************************)
(* Tier 6: designated cities                                               *)
(***************************************************************************)
\* the list literal of line 145
DesignatedCities ==
    { <<"sen", "dai", "shi">>, <<"shizu", "oka", "shi">>,
      <<"hama", "matsu", "shi">>, <<"satsu", "poro", "shi">>,
      <<"yoko", "hama", "shi">>, <<"kawa", "saki", "shi">>,
      <<"sou", "mo", "hara", "shi">>, <<"nii", "gata", "shi">>,
      <<"na", "ko_old", "ya", "shi">>, <<"kyo", "miyako", "shi">>,
      <<"oo", "saka", "shi">>, <<"sakai", "shi">>,
      <<"kami", "to_door", "shi">>, <<"oka", "yama", "shi">>,
      <<"hiro", "shima", "shi">>, <<"kita", "kyuu", "shuu", "shi">>,
      <<"fuku", "oka", "shi">>, <<"kuma", "moto", "shi">> }

West == <<"nishi", "bu">>
East == <<"higashi", "bu">>
North == <<"kita", "bu">>
South == <<"minami", "bu">>

\* the dict literal of lines 253-275, its entries in source order
RegionMappingEntries ==
    << \* Sendai
       <<<<"ao", "ha", "ku">>, West>>, <<<<"miya", "shiro", "no", "ku">>, East>>,
       <<<<"waka", "hayashi", "ku">>, East>>, <<<<"tai", "haku", "ku">>, West>>,
       <<<<"izumi", "ku">>, West>>,
       \* Shizuoka
       <<<<"aoi", "ku">>, North>>, <<<<"sun", "ga", "ku">>, South>>,
       <<<<"kiyo", "mizu", "ku">>, South>>,
       \* Hamamatsu
       <<<<"naka", "ou", "ku">>, South>>, <<<<"higashi", "ku">>, South>>,
       <<<<"nishi", "ku">>, South>>, <<<<"minami", "ku">>, South>>,
       <<<<"kita", "ku">>, North>>, <<<<"hama", "kita", "ku">>, North>>,
       <<<<"ten", "ryu", "ku">>, North>>,
       \* Sapporo
       <<<<"naka", "ou", "ku">>, West>>, <<<<"kita", "ku">>, West>>,
       <<<<"higashi", "ku">>, East>>, <<<<"haku", "ishi", "ku">>, East>>,
       <<<<"toyo", "hira", "ku">>, West>>, <<<<"minami", "ku">>, West>>,
       <<<<"nishi", "ku">>, West>>, <<<<"atsu", "betsu", "ku">>, East>>,
       <<<<"te", "ine", "ku">>, West>>, <<<<"kiyo", "ta", "ku">>, East>>,
       \* Yokohama
       <<<<"tsuru", "mi_see", "ku">>, East>>,
       <<<<"kami", "na_n", "kawa", "ku">>, East>>,
       <<<<"nishi", "ku">>, West>>, <<<<"naka", "ku">>, West>>,
       <<<<"minami", "ku">>, West>>,
       <<<<"ho", "tsuchi", "ke", "tani", "ku">>, West>>,
       <<<<"iso", "ko", "ku">>, East>>, <<<<"kana", "zawa", "ku">>, East>>,
       <<<<"minato", "kita", "ku">>, North>>, <<<<"to_door", "tsuka", "ku">>, West>>,
       <<<<"minato", "minami", "ku">>, West>>, <<<<"asahi", "ku">>, West>>,
       <<<<"midori", "ku">>, North>>, <<<<"se", "tani", "ku">>, West>>,
       <<<<"sakae", "ku">>, West>>, <<<<"izumi", "ku">>, West>>,
       <<<<"ao", "ha", "ku">>, North>>, <<<<"miyako", "tsuzuki", "ku">>, North>>
    >>

\* region_mapping.get(ward_name): a dict literal keeps, for a key written
\* more than once, the value written last; <<>> is None
RegionMappingGet(ward_name) ==
    LET hits == {k \in 1..Len(RegionMappingEntries) :
                    RegionMappingEntries[k][1] = ward_name}
    IN  IF hits = {} THEN <<>> ELSE RegionMappingEntries[Max(hits)][2]

\* re.search(r'(.+shi)(.+ku)', s): the ends q of group 1; the match starts at
\* the first character, group 1 is greedy, then group 2 is greedy
WardSearch(s) ==
    {q \in Positions(s, "shi") :
        q >= 2 /\ \E r \in Positions(s, "ku") : r >= q + 2}

\* expected_region of _find_regional_weather_area for postal_city (lines
\* 245-277); <<>> when the pattern of line 245 does not match or the dict
\* has no entry for the ward
ExpectedRegion(postal_city) ==
    IF WardSearch(postal_city) = {} THEN <<>>
    ELSE
      LET q == Max(WardSearch(postal_city))
          r == Max({x \in Positions(postal_city, "ku") : x >= q + 2})
      IN  RegionMappingGet(SubSeq(postal_city, q + 1, r))

\* _find_regional_weather_area(postal_city, weather_areas); rows is the set
\* of positions of the prefecture's rows
FindRegionalWeatherArea(postal_city, was, rows) ==
    IF WardSearch(postal_city) = {} THEN NoRow
    ELSE
      LET q == Max(WardSearch(postal_city))
          r == Max({x \in Positions(postal_city, "ku") : x >= q + 2})
          city_name == SubSeq(postal_city, 1, q)
          ward_name == SubSeq(postal_city, q + 1, r)
          expected_region == RegionMappingGet(ward_name)
          withCity == {k \in rows : Contains(was[k].city, city_name)}
          withBoth == {k \in withCity : Contains(was[k].city, expected_region)}
      IN  IF expected_region = <<>> THEN First(withCity)
          ELSE IF withBoth # {} THEN First(withBoth)
          ELSE First(withCity)

(***************************************************************************)
(* Tier 9: Tsushima                                                        *)
(***************************************************************************)
Nagasaki == "nagasaki_ken"
TsushimaCity == <<"tai_pair", "uma", "shi">>
UpperTsushima == <<"ue", "tai_pair", "uma">>
LowerTsushima == <<"shita", "tai_pair", "uma">>

\* upper_tsushima_towns, lower_tsushima_towns (lines 348-355), in list order
UpperTsushimaTowns ==
    << <<"ue", "ken", "cho">>, <<"ue", "tai_pair", "uma", "cho">> >>
LowerTsushimaTowns ==
    << <<"izu", "hara", "cho">>, <<"toyo", "tama", "cho">>,
       <<"mi_beauty", "tsu", "shima", "cho">>, <<"mine", "cho">> >>

\* _map_tsushima_region(town_name, weather_areas): each for loop looks for
\* its area at the first listed town found and then breaks; when the area is
\* missing the code falls through to the next loop and to the default
MapTsushimaRegion(town_name, was, rows) ==
    LET upper == {k \in rows : Contains(was[k].city, UpperTsushima)}
        lower == {k \in rows : Contains(was[k].city, LowerTsushima)}
        isUpper == \E t \in 1..Len(UpperTsushimaTowns) :
                      Contains(town_name, UpperTsushimaTowns[t])
    IN  IF isUpper /\ upper # {} THEN First(upper) ELSE First(lower)

(***************************************************************************)
(* Matcher                                                                 *)
(***************************************************************************)
Hit(tier, row) == [tier |-> tier, row |-> row]

\* _find_weather_area_for_postal_code, lines 91-195: the row tier k finds
\* when it is tried (NoRow: the tier yields nothing)
TierRow(k, postal_code, was) ==
    LET pref == postal_code.prefecture
        city == postal_code.city
        rows == InPrefecture(was, pref)
        normalized_postal_city == NormalizeCityName(city)
        simplified_city == IF Contains(city, <<"gun">>)
                           THEN RemoveCountyPrefix(city)
                           ELSE NoName
        variant == NormalizeCharacterVariants(city)
    IN  CASE k = 1 -> ExactFirst(was, pref, city)
          [] k = 2 -> ExactFirst(was, pref, normalized_postal_city)
          [] k = 3 -> LikeFirst(was, pref, city)
          [] k = 4 -> First({r \in rows : Contains(city, was[r].city)})
          [] k = 5 -> First({r \in rows :
                         NormalizeCityName(was[r].city) = normalized_postal_city})
          [] k = 6 -> IF normalized_postal_city \in DesignatedCities
                      THEN FindRegionalWeatherArea(city, was, rows)
                      ELSE NoRow
          [] k = 7 -> IF simplified_city = NoName THEN NoRow
                      ELSE IF ExactFirst(was, pref, simplified_city) # NoRow
                           THEN ExactFirst(was, pref, simplified_city)
                           ELSE LikeFirst(was, pref, simplified_city)
          [] k = 8 -> IF variant # city
                      THEN ExactFirst(was, pref, variant)
                      ELSE NoRow
          [] k = 9 -> IF pref = Nagasaki /\ city = TsushimaCity
                      THEN MapTsushimaRegion(postal_code.town, was, rows)
                      ELSE NoRow

\* the tiers in the order the code tries them
TierOrder == <<1, 2, 3, 4, 5, 6, 7, 8, 9>>

\* the cascade of "if weather_area: return weather_area": the first tier
\* of order that finds a row decides (tier 0, NoRow: return None)
Cascade(order, postal_code, was) ==
    LET hits == {n \in 1..Len(order) : TierRow(order[n], postal_code, was) # NoRow}
    IN  IF hits = {} THEN Hit(0, NoRow)
        ELSE Hit(order[Min(hits)], TierRow(order[Min(hits)], postal_code, was))

FindWithTierSubstringFirst(postal_code, was) ==
    Cascade(<<3, 1, 2, 4, 5, 6, 7, 8, 9>>, postal_code, was)
FindWithTierNoReverse(postal_code, was) ==
    Cascade(<<1, 2, 3, 5, 6, 7, 8, 9>>, postal_code, was)
FindWithTier(postal_code, was) == Cascade(TierOrder, postal_code, was)

\* the id of the WeatherArea the matcher returns, NULL for None
FindWeatherAreaForPostalCode(postal_code, was) ==
    LET row == FindWithTier(postal_code, was).row
    IN  IF row = NoRow THEN NULL ELSE was[row].id

(***************************************************************************)
(* The tables of the model                                                 *)
(***************************************************************************)
\* number of rows of postal_codes
NumRecords == 5

\* batch_size of line 41 (100 in the source), scaled so that a backlog of
\* NumRecords rows has several full batches and a short last one
BatchSize == 2

Records == 1..NumRecords

\* weather_areas rows (weather_area.py:18-22 and the city column of
\* alembic/versions/add_city_to_weather_areas.py:20), in row order
WeatherAreas ==
    << [id |-> 11, prefecture |-> "X", city |-> <<"a", "shi">>],
       [id |-> 12, prefecture |-> "Y", city |-> <<"g", "cho">>],
       [id |-> 13, prefecture |-> "X", city |-> <<"b", "shi", "higashi", "bu">>] >>

\* postal_codes rows (postal_code.py:14-18); row r holds template
\* ((r - 1) % 6) + 1
PostalTemplates ==
    << [prefecture |-> "X", city |-> <<"a", "shi", "c", "ku">>, town |-> <<"t">>],
       [prefecture |-> "Y", city |-> <<"b", "gun", "g", "cho">>, town |-> <<"t">>],
       [prefecture |-> "X", city |-> <<"z", "son">>, town |-> <<"t">>],
       [prefecture |-> "X", city |-> <<"a", "shi">>, town |-> <<"t">>],
       [prefecture |-> "Y", city |-> <<"q", "cho">>, town |-> <<"t">>],
       [prefecture |-> "X", city |-> <<"b", "shi">>, town |-> <<"t">>] >>

PostalCodes ==
    [r \in Records |-> PostalTemplates[((r - 1) % Len(PostalTemplates)) + 1]]

\* what the matcher returns for each postal row against WeatherAreas
MatchOf ==
    [r \in Records |-> FindWeatherAreaForPostalCode(PostalCodes[r], WeatherAreas)]

\* a reference left by an earlier mapping (a valid weather_areas id)
StaleArea == WeatherAreas[3].id

(***************************************************************************)
(* map_postal_codes_to_weather_areas, lines 20-79                          *)
(***************************************************************************)
VARIABLES
    db,             \* committed postal_codes.weather_area_id, by row
    mem,            \* the attribute as the session's objects hold it
    areas_readable, \* whether queries on weather_areas succeed
    pc,             \* "idle", "batch" (line 42), "record" (line 45), "done", "raised"
    backlog,        \* unmapped_postal_codes
    i,              \* the batch loop's index
    batch,          \* unmapped_postal_codes[i:i + batch_size]
    j,              \* position in batch of the next record
    count,          \* mapped_count, not_found_count, error_count
    result,         \* the dict returned, NoResult before the return
    calls,          \* history: matcher invocations per row in this run
    tally,          \* history: per row, how often each counter counted it
    raised,         \* history: rows whose matching raised in this run
    commits,        \* history: the commit attempts of this run, in order
    runStartDb,     \* history: db when the run loaded its backlog
    origDb,         \* history: db in the initial state
    runFailed,      \* history: a match or a commit failed in this run
    prevFailed,     \* history: a match or a commit failed in an earlier run
    stats,          \* what the last get_mapping_statistics call returned
    reset,          \* how the last reset_mapping call ended
    probe,          \* a direct call of the matcher or of a normalizer
    prev,           \* history: the call before this one returned without
                    \* failure, and the not_found it returned
    cli,            \* what the CLI command "mapping" printed after the run
    conc            \* two runs on separate sessions (ConcSpec)

vars == <<db, mem, areas_readable, pc, backlog, i, batch, j, count, result,
          calls, tally, raised, commits, runStartDb, origDb, runFailed,
          prevFailed, stats, reset, probe, prev, cli, conc>>

\* the variables map_postal_codes_to_weather_areas does not touch
others == <<stats, reset, probe, conc>>

\* no get_mapping_statistics, reset_mapping or direct call made yet
NoStats == [status |-> "none"]
NoReset == [status |-> "none"]
NoProbe == [kind |-> "none"]

\* no earlier call of the run, nothing printed, no concurrent runs
NoPrev == [clean |-> FALSE, not_found |-> 0]
NoCli == [status |-> "none"]
NoConc == [status |-> "none"]

NoResult == [total_processed |-> -1, mapped |-> -1, not_found |-> -1, errors |-> -1]
ZeroCount == [mapped |-> 0, not_found |-> 0, errors |-> 0]

\* lines 30-32: select(PostalCode).where(weather_area_id IS NULL).all()
AllPostalCodes(d) == [k \in 1..NumRecords |-> k]
UnmappedPostalCodes(d) ==
    SelectSeq([k \in 1..NumRecords |-> k], LAMBDA r : d[r] = NULL)

\* line 43: unmapped_postal_codes[i:i + batch_size]
SliceShort(list, at) ==
    SubSeq(list, at + 1, IF at + BatchSize - 1 <= Len(list)
                         THEN at + BatchSize - 1 ELSE Len(list))
Slice(list, at) ==
    SubSeq(list, at + 1, IF at + BatchSize <= Len(list)
                         THEN at + BatchSize ELSE Len(list))

\* line 42: the next value of range(0, len(unmapped_postal_codes), batch_size)
NextIndexSkip(at) == at + BatchSize + 1
NextIndex(at) == at + BatchSize

\* lines 51-52, 54, 58, 69: the counter updates
OnMatched(c) == [c EXCEPT !.mapped = @ + 1]
OnNotFoundAsError(c) == [c EXCEPT !.errors = @ + 1]
OnNotFound(c) == [c EXCEPT !.not_found = @ + 1]
OnMatchError(c) == [c EXCEPT !.errors = @ + 1]
OnCommitError(c, n) == [c EXCEPT !.errors = @ + n]

\* line 64: commit() flushes the pending assignments and commits them
CommitNothing(m, d) == d
Commit(m, d) == m

\* line 68: rollback() discards the pending assignments
RollbackSkipped(m, d) == m
Rollback(m, d) == d

\* lines 66-69: the commit error is logged, the loop goes on
PcAfterCommitErrorRaise == "raised"
PcAfterCommitError == "batch"

\* lines 57-60: the match error is logged, the loop goes on
PcAfterMatchError == "record"

\* lines 71-76
ResultTotalAll(list, c) ==
    [total_processed |-> NumRecords, mapped |-> c.mapped,
     not_found |-> c.not_found, errors |-> c.errors]
Result(list, c) ==
    [total_processed |-> Len(list), mapped |-> c.mapped,
     not_found |-> c.not_found, errors |-> c.errors]

Init ==
    /\ db \in [Records -> {NULL, StaleArea}]
    /\ mem = db
    /\ areas_readable \in BOOLEAN
    /\ pc = "idle"
    /\ backlog = <<>>
    /\ i = 0
    /\ batch = <<>>
    /\ j = 1
    /\ count = ZeroCount
    /\ result = NoResult
    /\ calls = [r \in Records |-> 0]
    /\ tally = [r \in Records |-> ZeroCount]
    /\ raised = {}
    /\ commits = <<>>
    /\ runStartDb = db
    /\ origDb = db
    /\ runFailed = FALSE
    /\ prevFailed = FALSE
    /\ stats = NoStats
    /\ reset = NoReset
    /\ probe = NoProbe
    /\ prev = NoPrev
    /\ cli = NoCli
    /\ conc = NoConc

\* the state a call starts from: a fresh session, fresh locals
EnterRun ==
    /\ pc \in {"idle", "done", "raised"}
    /\ mem' = db
    /\ i' = 0
    /\ batch' = <<>>
    /\ j' = 1
    /\ count' = ZeroCount
    /\ result' = NoResult
    /\ calls' = [r \in Records |-> 0]
    /\ tally' = [r \in Records |-> ZeroCount]
    /\ raised' = {}
    /\ commits' = <<>>
    /\ runStartDb' = db
    /\ runFailed' = FALSE
    /\ prevFailed' = (prevFailed \/ runFailed)
    /\ prev' = IF pc = "done" /\ ~runFailed
                THEN [clean |-> TRUE, not_found |-> result.not_found]
                ELSE NoPrev
    /\ cli' = NoCli
    /\ UNCHANGED <<others, db, areas_readable, origDb>>

\* lines 27-41: the backlog is loaded
LoadBacklog ==
    /\ EnterRun
    /\ backlog' = UnmappedPostalCodes(db)
    /\ pc' = "batch"

\* lines 30-32 raise: nothing catches it, the call ends with the exception
LoadFails ==
    /\ EnterRun
    /\ backlog' = <<>>
    /\ pc' = "raised"

\* lines 42-43: the next batch is cut
NextBatch ==
    /\ pc = "batch"
    /\ i < Len(backlog)
    /\ batch' = Slice(backlog, i)
    /\ j' = 1
    /\ pc' = "record"
    /\ UNCHANGED <<others, prev, cli, db, mem, areas_readable, backlog, i, count, result, calls,
                   tally, raised, commits, runStartDb, origDb, runFailed,
                   prevFailed>>

\* lines 46-55: the matcher returns for the next record of the batch
MatchRecord ==
    /\ pc = "record"
    /\ j <= Len(batch)
    /\ areas_readable
    /\ LET r == batch[j]
           weather_area_id == FindWeatherAreaForPostalCode(PostalCodes[r], WeatherAreas)
       IN  /\ calls' = [calls EXCEPT ![r] = @ + 1]
           /\ IF weather_area_id # NULL
              THEN /\ mem' = [mem EXCEPT ![r] = weather_area_id]
                   /\ count' = OnMatched(count)
                   /\ tally' = [tally EXCEPT ![r] = OnMatched(@)]
              ELSE /\ mem' = mem
                   /\ count' = OnNotFound(count)
                   /\ tally' = [tally EXCEPT ![r] = OnNotFound(@)]
    /\ j' = j + 1
    /\ UNCHANGED <<others, prev, cli, db, areas_readable, pc, backlog, i, batch, result, raised,
                   commits, runStartDb, origDb, runFailed, prevFailed>>

\* lines 48, 57-60: the matcher raises (always, when weather_areas cannot be
\* read); the handler counts the record and continues
MatchRaises ==
    /\ pc = "record"
    /\ j <= Len(batch)
    /\ LET r == batch[j]
       IN  /\ calls' = [calls EXCEPT ![r] = @ + 1]
           /\ tally' = [tally EXCEPT ![r] = OnMatchError(@)]
           /\ raised' = raised \cup {r}
    /\ count' = OnMatchError(count)
    /\ j' = j + 1
    /\ pc' = PcAfterMatchError
    /\ runFailed' = TRUE
    /\ UNCHANGED <<others, prev, cli, db, mem, areas_readable, backlog, i, batch, result, commits,
                   runStartDb, origDb, prevFailed>>

\* lines 63-65: the batch's commit succeeds
CommitOk ==
    /\ pc = "record"
    /\ j > Len(batch)
    /\ db' = Commit(mem, db)
    /\ mem' = Commit(mem, db)
    /\ commits' = Append(commits, [size |-> Len(batch), ok |-> TRUE, rows |-> batch])
    /\ i' = NextIndex(i)
    /\ pc' = "batch"
    /\ UNCHANGED <<others, prev, cli, areas_readable, backlog, batch, j, count, result, calls, tally,
                   raised, runStartDb, origDb, runFailed, prevFailed>>

\* lines 63-64, 66-69: the batch's commit raises
CommitFails ==
    /\ pc = "record"
    /\ j > Len(batch)
    /\ mem' = Rollback(mem, db)
    /\ count' = OnCommitError(count, Len(batch))
    /\ tally' = [r \in Records |->
                    IF \E k \in 1..Len(batch) : batch[k] = r
                    THEN OnCommitError(tally[r], 1) ELSE tally[r]]
    /\ commits' = Append(commits, [size |-> Len(batch), ok |-> FALSE, rows |-> batch])
    /\ i' = NextIndex(i)
    /\ pc' = PcAfterCommitError
    /\ runFailed' = TRUE
    /\ UNCHANGED <<others, prev, cli, db, areas_readable, backlog, batch, j, result, calls, raised,
                   runStartDb, origDb, prevFailed>>

\* lines 71-79: the loop is over, the statistics are returned
ReturnResult ==
    /\ pc = "batch"
    /\ i >= Len(backlog)
    /\ result' = Result(backlog, count)
    /\ pc' = "done"
    /\ UNCHANGED <<others, prev, cli, db, mem, areas_readable, backlog, i, batch, j, count, calls,
                   tally, raised, commits, runStartDb, origDb, runFailed,
                   prevFailed>>

\* the steps of a call once its backlog is loaded
RunStep ==
    NextBatch \/ MatchRecord \/ MatchRaises \/ CommitOk \/ CommitFails \/ ReturnResult

Next == LoadBacklog \/ LoadFails \/ RunStep

Spec == Init /\ [][Next]_vars

\* a call runs to its end: nothing in it waits
FairSpec == Spec /\ WF_vars(RunStep)

(***************************************************************************)
(* Vocabulary of the properties                                            *)
(***************************************************************************)
Rows(list) == {list[k] : k \in 1..Len(list)}

\* the commit of the batch that holds row r failed in this run
BatchFailed(r) ==
    \E k \in 1..Len(commits) : ~commits[k].ok /\ r \in Rows(commits[k].rows)

\* the matcher returned None for row r in this run
ReturnedNone(r) == calls[r] >= 1 /\ r \notin raised /\ MatchOf[r] = NULL

\* the batches range() and the slice cut from a list of n rows
NumBatches(n) == (n + BatchSize - 1) \div BatchSize
BatchOf(list, k) ==
    SubSeq(list, (k - 1) * BatchSize + 1,
           IF k * BatchSize <= Len(list) THEN k * BatchSize ELSE Len(list))

\* the mapping a run without failures leaves when started from d
Expected(d) == [r \in Records |-> IF d[r] # NULL THEN d[r] ELSE MatchOf[r]]

(***************************************************************************)
(* C1  The statistics a run returns satisfy mapped + not_found + errors =  *)
(* total_processed, and every backlog record is counted in exactly one of  *)
(* the three counters.  (Refuted: a failed commit adds len(batch) to       *)
(* errors for records the loop has already counted.)                       *)
(***************************************************************************)
C1_CountersPartitionBacklog ==
    pc = "done" =>
        /\ result.mapped + result.not_found + result.errors = result.total_processed
        /\ \A r \in Rows(backlog) :
              tally[r].mapped + tally[r].not_found + tally[r].errors = 1

C3_FailedCommitRolledBack ==
    /\ \A r \in Records : BatchFailed(r) => db[r] = NULL
    /\ pc = "done" =>
          /\ Len(commits) = NumBatches(Len(backlog))
          /\ \A r \in Rows(backlog) : calls[r] = 1
          /\ \A r \in Rows(backlog) :
                (~BatchFailed(r) /\ r \notin raised) => db[r] = MatchOf[r]

C3_Witness ==
    /\ pc = "done"
    /\ \E k \in 1..(Len(commits) - 1) :
          /\ ~commits[k].ok
          /\ commits[k + 1].ok
          /\ \E r \in Rows(commits[k].rows) :
                MatchOf[r] # NULL /\ r \notin raised /\ db[r] = NULL
          /\ \E r \in Rows(commits[k + 1].rows) :
                MatchOf[r] # NULL /\ db[r] = MatchOf[r]

(***************************************************************************)
(* C4  A record whose matching raises is counted once in errors, stays     *)
(* unmapped, and the rest of the backlog is still processed.  (Refuted:    *)
(* when the commit of its batch fails too, line 69 counts it again.)       *)
(***************************************************************************)
C4_RaisedCountedOnce ==
    /\ \A r \in raised : tally[r].errors = 1 /\ db[r] = NULL /\ mem[r] = NULL
    /\ (pc = "done" /\ raised # {}) => \A r \in Rows(backlog) : calls[r] = 1

(***************************************************************************)
(* C5  If weather_areas cannot be read, the run surfaces the failure at    *)
(* once: no record is processed and no statistics are returned.  (Refuted: *)
(* the table is read inside the per-record try of lines 46-60, so every    *)
(* record is counted in errors and a summary is returned.)                 *)
(***************************************************************************)
C5_SetupFailureSurfaces ==
    (~areas_readable /\ Len(backlog) > 0) =>
        /\ \A r \in Records : calls[r] = 0
        /\ pc # "done"
        /\ result = NoResult

(***************************************************************************)
(* C6  A postal record that is mapped when a run loads its backlog keeps   *)
(* its reference through the run: the run writes, in the session and in    *)
(* the table, only to records that were unmapped at the load.              *)
(***************************************************************************)
C6_MappedStable ==
    \A r \in Records :
        runStartDb[r] # NULL => db[r] = runStartDb[r] /\ mem[r] = runStartDb[r]

C6_Witness ==
    /\ pc = "done"
    /\ \E r \in Records : runStartDb[r] # NULL /\ MatchOf[r] # runStartDb[r]
    /\ \E r \in Records : runStartDb[r] = NULL /\ db[r] # NULL

(***************************************************************************)
(* C7  A run over a table in which every postal record is mapped is a      *)
(* no-op: no record is matched, no commit is attempted, nothing changes,   *)
(* and the statistics returned are all 0.                                  *)
(***************************************************************************)
C7_FullyMappedNoOp ==
    (pc \in {"batch", "record", "done"} /\ \A r \in Records : runStartDb[r] # NULL) =>
        /\ commits = <<>>
        /\ \A r \in Records : calls[r] = 0
        /\ db = runStartDb
        /\ mem = runStartDb
        /\ pc = "done" =>
              result = [total_processed |-> 0, mapped |-> 0,
                        not_found |-> 0, errors |-> 0]

C7_Witness ==
    /\ pc = "done"
    /\ \A r \in Records : runStartDb[r] # NULL
    /\ result.total_processed = 0

(***************************************************************************)
(* C8  After runs in which matches or commits failed, a run without        *)
(* failures has as its backlog exactly the records still unmapped and      *)
(* leaves the mapping that one run without failures would have left from   *)
(* the original state.                                                     *)
(***************************************************************************)
C8_Resumable ==
    (pc = "done" /\ ~runFailed /\ prevFailed) =>
        /\ Rows(backlog) = {r \in Records : runStartDb[r] = NULL}
        /\ Len(backlog) = Cardinality(Rows(backlog))
        /\ db = Expected(origDb)

C8_Witness ==
    /\ pc = "done"
    /\ ~runFailed
    /\ prevFailed
    /\ \E r \in Records : origDb[r] = NULL /\ runStartDb[r] # NULL
    /\ \E r \in Records : runStartDb[r] = NULL /\ db[r] # NULL

(***************************************************************************)
(* C9  The backlog is processed in consecutive batches of batch_size in    *)
(* load order, with one commit attempt per batch: ceil(N / batch_size)     *)
(* attempts, every batch full except possibly the last, none for an empty  *)
(* backlog; and a record is matched only after the commit attempts of all  *)
(* batches before its own.                                                 *)
(***************************************************************************)
C9_BatchesInOrder ==
    /\ pc \in {"batch", "record", "done"} =>
          /\ Len(commits) <= NumBatches(Len(backlog))
          /\ \A k \in 1..Len(commits) :
                /\ commits[k].rows = BatchOf(backlog, k)
                /\ commits[k].size = Len(BatchOf(backlog, k))
                /\ (k < NumBatches(Len(backlog)) => commits[k].size = BatchSize)
                /\ commits[k].size >= 1
          /\ \A p \in 1..Len(backlog) :
                calls[backlog[p]] > 0 => Len(commits) >= (p - 1) \div BatchSize
    /\ pc = "done" => Len(commits) = NumBatches(Len(backlog))

C9_Witness ==
    /\ pc = "done"
    /\ Len(commits) >= 3
    /\ commits[Len(commits)].size < BatchSize
    /\ commits[1].size = BatchSize

service == <<db, mem, areas_readable, pc, backlog, i, batch, j, count, result,
             calls, tally, raised, commits, runStartDb, origDb, runFailed,
             prevFailed, prev, cli>>

\* no run in progress, nothing mapped, no statistics or reset call made
ServiceAtRest ==
    /\ db = [r \in Records |-> NULL]
    /\ mem = db
    /\ areas_readable = TRUE
    /\ pc = "idle"
    /\ backlog = <<>>
    /\ i = 0
    /\ batch = <<>>
    /\ j = 1
    /\ count = ZeroCount
    /\ result = NoResult
    /\ calls = [r \in Records |-> 0]
    /\ tally = [r \in Records |-> ZeroCount]
    /\ raised = {}
    /\ commits = <<>>
    /\ runStartDb = db
    /\ origDb = db
    /\ runFailed = FALSE
    /\ prevFailed = FALSE
    /\ prev = NoPrev
    /\ cli = NoCli

\* longest weather_areas table of a direct call
MaxRows == 2

PostalCodeRow(prefecture, city, town) ==
    [prefecture |-> prefecture, city |-> city, town |-> town]

\* PostalCode rows (prefecture, city, town) the matcher is called on
ProbePostalCodes ==
    { PostalCodeRow("X", <<"a", "shi", "c", "ku">>, <<"t">>),
      PostalCodeRow("X", <<"a", "shi", "b", "shi", "c", "ku">>, <<"t">>),
      PostalCodeRow("X", <<"a", "shi">>, <<"t">>),
      PostalCodeRow("Y", <<"b", "gun", "g", "cho">>, <<"t">>),
      PostalCodeRow("X", <<"z", "son">>, <<"t">>),
      PostalCodeRow("X", <<"k", "KE", "shi">>, <<"t">>),
      PostalCodeRow("X", <<"sen", "dai", "shi", "ao", "ha", "ku">>, <<"t">>),
      PostalCodeRow("X", <<"sen", "dai", "shi", "waka", "hayashi", "ku">>, <<"t">>),
      PostalCodeRow("X", <<"sen", "dai", "shi", "c", "ku">>, <<"t">>),
      PostalCodeRow("X", <<"sen", "dai", "shi">>, <<"t">>),
      PostalCodeRow("X", <<"hama", "matsu", "shi", "kita", "ku">>, <<"t">>),
      PostalCodeRow("X", <<"hama", "matsu", "shi", "naka", "ou", "ku">>, <<"t">>),
      PostalCodeRow(Nagasaki, TsushimaCity, <<"ue", "ken", "cho", "t">>),
      PostalCodeRow(Nagasaki, TsushimaCity, <<"izu", "hara", "cho", "t">>),
      PostalCodeRow(Nagasaki, TsushimaCity, <<"t">>) }

WeatherAreaRow(prefecture, city) == [prefecture |-> prefecture, city |-> city]

\* WeatherArea rows (prefecture, city) the tables are made of; the row with
\* the empty city is a row as the add-city migration leaves it
\* (server_default '')
ProbeWeatherAreas ==
    << WeatherAreaRow("X", <<"a", "shi">>),
       WeatherAreaRow("X", <<"a", "shi", "d", "ku">>),
       WeatherAreaRow("X", <<"a", "shi", "higashi", "bu">>),
       WeatherAreaRow("Y", <<"g", "cho">>),
       WeatherAreaRow("Y", <<"g", "cho", "higashi", "bu">>),
       WeatherAreaRow("Y", <<"b", "gun", "g", "cho", "higashi", "bu">>),
       WeatherAreaRow("X", <<"g", "cho">>),
       WeatherAreaRow("Y", <<>>),
       WeatherAreaRow("X", <<"k", "ke", "shi">>),
       WeatherAreaRow("X", <<"sen", "dai", "shi">> \o East),
       WeatherAreaRow("X", <<"sen", "dai", "shi">> \o West),
       WeatherAreaRow("X", <<"sen", "dai", "shi">> \o North),
       WeatherAreaRow(Nagasaki, UpperTsushima),
       WeatherAreaRow(Nagasaki, LowerTsushima) >>

\* two of the orders in which n rows, imported one after the other (ids
\* 1..n), can come back from a select without ORDER BY, the import order
\* and its reverse: ids[k] is the id of the row returned in place k
RowOrders(n) == {[k \in 1..n |-> k], [k \in 1..n |-> n + 1 - k]}

\* the tables: up to MaxRows catalogue rows, in the order the selects of one
\* call return them; the id of a row (weather_area.py:17, the primary key)
\* tells its place in the import order
ProbeTables ==
    LET picks == UNION {[1..n -> 1..Len(ProbeWeatherAreas)] : n \in 0..MaxRows}
    IN  UNION {{[k \in DOMAIN pick |->
                    [id |-> ids[k],
                     prefecture |-> ProbeWeatherAreas[pick[k]].prefecture,
                     city |-> ProbeWeatherAreas[pick[k]].city]] :
                 ids \in RowOrders(Len(pick))} : pick \in picks}

MatcherInit ==
    /\ ServiceAtRest
    /\ stats = NoStats
    /\ reset = NoReset
    /\ conc = NoConc
    /\ \E postal_code \in ProbePostalCodes, was \in ProbeTables :
          probe = [kind |-> "postal", postal_code |-> postal_code, was |-> was,
                   tier |-> 0, row |-> NoRow, weather_area_id |-> NULL,
                   expected_region |-> <<>>]

\* tier 6 is evaluated: tiers 1-5 found nothing and the ward-stripped city
\* is in the list of line 145
Tier6Evaluated(postal_code, was) ==
    /\ \A k \in 1..5 : TierRow(k, postal_code, was) = NoRow
    /\ NormalizeCityName(postal_code.city) \in DesignatedCities

\* weather_area = self._find_weather_area_for_postal_code(postal_code) and
\* the id line 51 assigns to postal_code.weather_area_id; expected_region is
\* the local of _find_regional_weather_area when tier 6 is evaluated
FindWeatherArea ==
    /\ probe.kind = "postal"
    /\ probe' = [probe EXCEPT
                   !.kind = "matched",
                   !.tier = FindWithTier(probe.postal_code, probe.was).tier,
                   !.row = FindWithTier(probe.postal_code, probe.was).row,
                   !.weather_area_id =
                       FindWeatherAreaForPostalCode(probe.postal_code, probe.was),
                   !.expected_region =
                       IF Tier6Evaluated(probe.postal_code, probe.was)
                       THEN ExpectedRegion(probe.postal_code.city)
                       ELSE <<>>]
    /\ UNCHANGED <<service, stats, reset, conc>>

MatcherNext == FindWeatherArea

MatcherSpec == MatcherInit /\ [][MatcherNext]_vars

(***************************************************************************)
(* Vocabulary of the matcher claims                                        *)
(***************************************************************************)
Matched == probe.kind = "matched"

\* the tiers that yield a row for the call's record and table
YieldingTiers ==
    {k \in 1..9 : TierRow(k, probe.postal_code, probe.was) # NoRow}

\* the rows of the record's prefecture
Division == InPrefecture(probe.was, probe.postal_code.prefecture)

\* the returned row's city
MatchedCity == probe.was[probe.row].city

\* C11: the matcher returns the result of the lowest-numbered tier that
\* yields a region (none when no tier yields one); when a region named
\* exactly as the postal city exists in the prefecture and another region
\* merely contains that name, the exact one is returned, at tier 1.
C11_LowestTierWins ==
    Matched =>
        /\ YieldingTiers = {} => probe.tier = 0 /\ probe.row = NoRow
        /\ YieldingTiers # {} =>
              /\ probe.tier = Min(YieldingTiers)
              /\ probe.row = TierRow(probe.tier, probe.postal_code, probe.was)
        /\ (\E e \in Division, c \in Division :
               /\ probe.was[e].city = probe.postal_code.city
               /\ probe.was[c].city # probe.postal_code.city
               /\ Contains(probe.was[c].city, probe.postal_code.city))
           => probe.tier = 1 /\ MatchedCity = probe.postal_code.city

\* the containing region comes first in row order and the exact one wins
C11_Witness ==
    /\ Matched
    /\ \E e \in Division, c \in Division :
          /\ c < e
          /\ probe.was[e].city = probe.postal_code.city
          /\ probe.was[c].city # probe.postal_code.city
          /\ Contains(probe.was[c].city, probe.postal_code.city)
    /\ probe.tier = 1
    /\ MatchedCity = probe.postal_code.city

\* the ends q of <city>shi in a name of the form <city>shi<ward>ku, where
\* <city> and <ward> are not empty and <ward> is a ward name, which holds
\* no city designator
CityWardForms(s) ==
    {q \in 2..(Len(s) - 2) :
        /\ s[q] = "shi"
        /\ s[Len(s)] = "ku"
        /\ \A k \in (q + 1)..Len(s) : s[k] # "shi"}

\* scenario A with <city>shi ending at q: the prefecture holds a region
\* named exactly <city>shi and none named <city>shi<ward>ku
ScenarioA(q) ==
    /\ q \in CityWardForms(probe.postal_code.city)
    /\ \E r \in Division :
          probe.was[r].city = SubSeq(probe.postal_code.city, 1, q)
    /\ \A r \in Division : probe.was[r].city # probe.postal_code.city

CountyTownForms(s) ==
    {q \in 2..(Len(s) - 2) : s[q] = "gun" /\ s[Len(s)] = "cho"}

\* <town>cho of the form whose <county>gun ends at q
TownOf(s, q) == SubSeq(s, q + 1, Len(s))

\* scenario B with <county>gun ending at q: the prefecture holds a region
\* named exactly <town>cho and none named <county>gun<town>cho
ScenarioB(q) ==
    /\ q \in CountyTownForms(probe.postal_code.city)
    /\ \E r \in Division :
          probe.was[r].city = TownOf(probe.postal_code.city, q)
    /\ \A r \in Division : probe.was[r].city # probe.postal_code.city

\* the regions of the prefecture whose city is contained in the postal city
ContainedInPostalCity ==
    {r \in Division : Contains(probe.postal_code.city, probe.was[r].city)}

\* the regions of the prefecture whose city contains the postal city
ContainingPostalCity ==
    {r \in Division : Contains(probe.was[r].city, probe.postal_code.city)}

\* C13 as stated: in scenario B the record is mapped to the <town>cho
\* region and the tier that produces the match is tier 7.
C13_ScenarioBTier7 ==
    Matched =>
        \A q \in 1..Len(probe.postal_code.city) :
            ScenarioB(q) =>
                /\ probe.tier = 7
                /\ MatchedCity = TownOf(probe.postal_code.city, q)

\* C13 amended: in scenario B the match is made by tier 3 when a region of
\* the prefecture contains the whole postal city and by tier 4 otherwise,
\* never by tier 7; tier 4 maps the record to the first region of the
\* prefecture whose city is contained in the postal city, which is a
\* <town>cho region when no other such region comes earlier in row order.
C13_ScenarioBReverseSubstring ==
    Matched =>
        \A q \in 1..Len(probe.postal_code.city) :
            ScenarioB(q) =>
                /\ probe.tier = (IF ContainingPostalCity # {} THEN 3 ELSE 4)
                /\ probe.tier = 3 => probe.row = Min(ContainingPostalCity)
                /\ probe.tier = 4 => probe.row = Min(ContainedInPostalCity)
                /\ (/\ ContainingPostalCity = {}
                    /\ probe.was[Min(ContainedInPostalCity)].city
                          = TownOf(probe.postal_code.city, q))
                   => MatchedCity = TownOf(probe.postal_code.city, q)

\* scenario B happened: the record is mapped to the <town>cho region by
\* tier 4
C13_Witness ==
    /\ Matched
    /\ \E q \in 1..Len(probe.postal_code.city) :
          /\ ScenarioB(q)
          /\ MatchedCity = TownOf(probe.postal_code.city, q)
    /\ probe.tier = 4

\* the dict literal of lines 253-275 groups its entries by city, under one
\* comment per city: the city and the range of its entries
RegionMappingCities ==
    << <<<<"sen", "dai", "shi">>, 1, 5>>,
       <<<<"shizu", "oka", "shi">>, 6, 8>>,
       <<<<"hama", "matsu", "shi">>, 9, 15>>,
       <<<<"satsu", "poro", "shi">>, 16, 25>>,
       <<<<"yoko", "hama", "shi">>, 26, 43>> >>

\* the label the literal lists for ward_name under city_name; <<>> when the
\* city has no entry for the ward
CityRegionLabel(city_name, ward_name) ==
    LET hits == {k \in 1..Len(RegionMappingEntries) :
                    /\ RegionMappingEntries[k][1] = ward_name
                    /\ \E c \in 1..Len(RegionMappingCities) :
                          /\ RegionMappingCities[c][1] = city_name
                          /\ k >= RegionMappingCities[c][2]
                          /\ k <= RegionMappingCities[c][3]}
    IN  IF hits = {} THEN <<>> ELSE RegionMappingEntries[Min(hits)][2]

\* the record's city has a ward part: the pattern of line 245 matches
HasWard == WardSearch(probe.postal_code.city) # {}

\* group 1 and group 2 of the match of line 245
WardCityName ==
    SubSeq(probe.postal_code.city, 1, Max(WardSearch(probe.postal_code.city)))
WardName ==
    LET q == Max(WardSearch(probe.postal_code.city))
        r == Max({x \in Positions(probe.postal_code.city, "ku") : x >= q + 2})
    IN  SubSeq(probe.postal_code.city, q + 1, r)

\* the regions of the prefecture whose city contains the city name, and
\* those that also contain the label the ward's own city lists for the ward
WithCityName == {r \in Division : Contains(probe.was[r].city, WardCityName)}
WithCityAndLabel ==
    {r \in WithCityName :
        Contains(probe.was[r].city, CityRegionLabel(WardCityName, WardName))}

\* C14 as stated: tier 6 decides only for a designated city and after
\* tiers 1-5 found nothing; a city without ward part gets nothing from
\* tier 6; for a ward its city's table lists, the result is the first
\* region of the prefecture that contains the city name and the expected
\* label (when there is one); for a ward the table does not list, it is the
\* first region of the prefecture that contains the city name.
C14_Tier6PerCityLabel ==
    Matched =>
        /\ ~HasWard => TierRow(6, probe.postal_code, probe.was) = NoRow
        /\ probe.tier = 6 =>
              /\ NormalizeCityName(probe.postal_code.city) \in DesignatedCities
              /\ \A k \in 1..5 : TierRow(k, probe.postal_code, probe.was) = NoRow
              /\ HasWard
              /\ CityRegionLabel(WardCityName, WardName) = <<>>
                    => probe.row = First(WithCityName)
              /\ (/\ CityRegionLabel(WardCityName, WardName) # <<>>
                  /\ WithCityAndLabel # {})
                    => probe.row = First(WithCityAndLabel)

\* the record's town contains a town name of the northern / southern list
NorthernTown ==
    \E t \in 1..Len(UpperTsushimaTowns) :
        Contains(probe.postal_code.town, UpperTsushimaTowns[t])
SouthernTown ==
    \E t \in 1..Len(LowerTsushimaTowns) :
        Contains(probe.postal_code.town, LowerTsushimaTowns[t])

\* C15 as stated: tier 9 decides only for records of Nagasaki prefecture
\* and Tsushima city; it maps a town with a northern-list name to a region
\* containing the upper-Tsushima name, a town with a southern-list name (and
\* no northern one) to a region containing the lower-Tsushima name, and a
\* town of neither list to a region containing the lower-Tsushima name.
C15_TsushimaRegions ==
    (Matched /\ probe.tier = 9) =>
        /\ probe.postal_code.prefecture = Nagasaki
        /\ probe.postal_code.city = TsushimaCity
        /\ probe.row \in Division
        /\ NorthernTown => Contains(MatchedCity, UpperTsushima)
        /\ (SouthernTown /\ ~NorthernTown) => Contains(MatchedCity, LowerTsushima)
        /\ (~SouthernTown /\ ~NorthernTown) => Contains(MatchedCity, LowerTsushima)

(***************************************************************************)
(* Direct calls of the normalizers.  NormalizerSpec applies                *)
(* _normalize_city_name (once, and again to its own result) and            *)
(* _remove_county_prefix to a name drawn from all strings of up to         *)
(* MaxNameLen characters of NameAlphabet.                                  *)
(***************************************************************************)
\* longest name of a direct call
MaxNameLen == 5

\* the designators the two patterns look at, and one other character
NameAlphabet == {"a", "shi", "ku", "gun", "cho", "son"}

Names == UNION {[1..n -> NameAlphabet] : n \in 0..MaxNameLen}

NormalizerInit ==
    /\ ServiceAtRest
    /\ stats = NoStats
    /\ reset = NoReset
    /\ conc = NoConc
    /\ \E name \in Names :
          probe = [kind |-> "name", name |-> name, once |-> <<>>,
                   twice |-> <<>>, simplified |-> <<>>]

\* once = self._normalize_city_name(name)
NormalizeOnce ==
    /\ probe.kind = "name"
    /\ probe' = [probe EXCEPT !.kind = "normalized",
                              !.once = NormalizeCityName(probe.name)]
    /\ UNCHANGED <<service, stats, reset, conc>>

\* twice = self._normalize_city_name(once)
NormalizeTwice ==
    /\ probe.kind = "normalized"
    /\ probe' = [probe EXCEPT !.kind = "renormalized",
                              !.twice = NormalizeCityName(probe.once)]
    /\ UNCHANGED <<service, stats, reset, conc>>

\* simplified = self._remove_county_prefix(name)
RemoveCounty ==
    /\ probe.kind = "name"
    /\ probe' = [probe EXCEPT !.kind = "simplified",
                              !.simplified = RemoveCountyPrefix(probe.name)]
    /\ UNCHANGED <<service, stats, reset, conc>>

NormalizerNext == NormalizeOnce \/ NormalizeTwice \/ RemoveCounty

NormalizerSpec == NormalizerInit /\ [][NormalizerNext]_vars

\* s has the form <x>shi<y>ku, <x> and <y> not empty
CityWardForm(s) ==
    /\ Len(s) >= 4
    /\ s[Len(s)] = "ku"
    /\ \E q \in 2..(Len(s) - 2) : s[q] = "shi"

\* p is a proper prefix of s that ends in the city designator
CityPrefix(p, s) ==
    /\ Len(p) >= 2
    /\ Len(p) < Len(s)
    /\ p = SubSeq(s, 1, Len(p))
    /\ p[Len(p)] = "shi"

\* C16: ward-strip returns a value for every name; the value is the
\* <x>shi prefix when the name has the form <x>shi<y>ku and the name itself
\* otherwise (also for a name that is only <y>ku); stripping the result
\* again returns the result.
C16_WardStripIdempotent ==
    /\ probe.kind \in {"normalized", "renormalized"} =>
          /\ CityWardForm(probe.name) => CityPrefix(probe.once, probe.name)
          /\ ~CityWardForm(probe.name) => probe.once = probe.name
    /\ probe.kind = "renormalized" => probe.twice = probe.once

\* a ward was stripped and the second strip changed nothing
C16_Witness ==
    /\ probe.kind = "renormalized"
    /\ CityWardForm(probe.name)
    /\ probe.once # probe.name
    /\ probe.twice = probe.once

\* C17: county-prefix removal returns "no match" for every name without the
\* county designator; a value it returns is a non-empty proper suffix of
\* the name that follows a county designator and ends in a town, village or
\* city designator, never the empty string and never the name itself.
C17_CountyPrefixRemoval ==
    probe.kind = "simplified" =>
        /\ ~Contains(probe.name, <<"gun">>) => probe.simplified = NoName
        /\ probe.simplified # NoName =>
              /\ probe.simplified # <<>>
              /\ probe.simplified # probe.name
              /\ probe.simplified[Len(probe.simplified)] \in {"cho", "son", "shi"}
              /\ \E q \in 1..(Len(probe.name) - 1) :
                    /\ probe.name[q] = "gun"
                    /\ probe.simplified = SubSeq(probe.name, q + 1, Len(probe.name))

\* a county prefix was removed
C17_Witness ==
    /\ probe.kind = "simplified"
    /\ Contains(probe.name, <<"gun">>)
    /\ probe.simplified # NoName
    /\ Len(probe.simplified) < Len(probe.name)

(***************************************************************************)
(* Statistics and reset.  StatsSpec calls get_mapping_statistics and       *)
(* reset_mapping, in any order and any number of times, on a postal_codes  *)
(* table of 0..NumRecords rows, each unmapped or mapped to a weather area; *)
(* no mapping run is in progress and the session holds no pending change.  *)
(*                                                                         *)
(* session.exec(select(...)) returns a result object that has all() and    *)
(* first() but neither count() nor update(): the call ...count() of        *)
(* reset_mapping raises AttributeError.  A select may also fail in the     *)
(* database; the except clauses log and re-raise.                          *)
(***************************************************************************)
\* the ids of the weather_areas rows
WeatherAreaIds == {WeatherAreas[k].id : k \in 1..Len(WeatherAreas)}

\* len(select(PostalCode).where(weather_area_id.is_not(None)).all())
MappedCount(d) == Cardinality({r \in DOMAIN d : d[r] # NULL})

\* mapped_postal_codes / total_postal_codes * 100, as the exact fraction
\* num / den; 0 when there is no record.  The float the code computes lies
\* in [0, 100] exactly when the fraction does: the division is correctly
\* rounded and monotone.
MappingRate(mapped, total) ==
    IF total > 0 THEN [num |-> mapped * 100, den |-> total]
    ELSE [num |-> 0, den |-> 1]

\* the where clause left out: every record counted as mapped
MappingStatisticsAllMapped(d) ==
    [status |-> "returned",
     total_postal_codes |-> Len(d),
     mapped_postal_codes |-> Len(d),
     unmapped_postal_codes |-> 0,
     mapping_rate |-> MappingRate(Len(d), Len(d))]

\* the dict of lines 389-394
MappingStatistics(d) ==
    [status |-> "returned",
     total_postal_codes |-> Len(d),
     mapped_postal_codes |-> MappedCount(d),
     unmapped_postal_codes |-> Len(d) - MappedCount(d),
     mapping_rate |-> MappingRate(MappedCount(d), Len(d))]

\* how a call that raised is recorded
StatsRaised == [status |-> "raised"]

\* reset_mapping left through "raise" (line 427); before is the committed
\* table when the call was made
ResetRaised(before) == [status |-> "raised", reset_count |-> -1, before |-> before]

StatsInit ==
    /\ \E n \in 0..NumRecords : db \in [1..n -> {NULL} \cup WeatherAreaIds]
    /\ mem = db
    /\ areas_readable = TRUE
    /\ pc = "idle"
    /\ backlog = <<>>
    /\ i = 0
    /\ batch = <<>>
    /\ j = 1
    /\ count = ZeroCount
    /\ result = NoResult
    /\ calls = [r \in Records |-> 0]
    /\ tally = [r \in Records |-> ZeroCount]
    /\ raised = {}
    /\ commits = <<>>
    /\ runStartDb = db
    /\ origDb = db
    /\ runFailed = FALSE
    /\ prevFailed = FALSE
    /\ stats = NoStats
    /\ reset = NoReset
    /\ probe = NoProbe
    /\ prev = NoPrev
    /\ cli = NoCli
    /\ conc = NoConc

\* get_mapping_statistics, lines 383-394: two selects, then the dict
GetMappingStatistics ==
    /\ pc = "idle"
    /\ stats' = MappingStatistics(db)
    /\ UNCHANGED <<service, reset, probe, conc>>

\* get_mapping_statistics, lines 395-397: a select failed
GetMappingStatisticsFails ==
    /\ pc = "idle"
    /\ stats' = StatsRaised
    /\ UNCHANGED <<service, reset, probe, conc>>

\* reset_mapping, lines 406-408 and 424-427: the count() call raises before
\* any statement changed a record; the except clause rolls back and
\* re-raises
ResetMapping ==
    /\ pc = "idle"
    /\ mem' = Rollback(mem, db)
    /\ reset' = ResetRaised(db)
    /\ UNCHANGED <<db, areas_readable, pc, backlog, i, batch, j, count, result,
                   calls, tally, raised, commits, runStartDb, origDb,
                   runFailed, prevFailed, stats, probe, prev, cli, conc>>

StatsNext == GetMappingStatistics \/ GetMappingStatisticsFails \/ ResetMapping

StatsSpec == StatsInit /\ [][StatsNext]_vars

\* C18: get_mapping_statistics returns the number of postal records, the
\* number of them with a non-null weather_area_id, unmapped = total - mapped
\* >= 0 and a mapping_rate in [0, 100] that is 0 when there is no record;
\* the call changes no record.
C18_StatisticsOfPersistedState ==
    /\ db = origDb
    /\ mem = db
    /\ stats.status = "returned" =>
          /\ stats.total_postal_codes = Len(db)
          /\ stats.mapped_postal_codes
                = Cardinality({r \in 1..Len(db) : db[r] # NULL})
          /\ stats.unmapped_postal_codes
                = stats.total_postal_codes - stats.mapped_postal_codes
          /\ stats.unmapped_postal_codes >= 0
          /\ stats.mapping_rate.num >= 0
          /\ stats.mapping_rate.num <= 100 * stats.mapping_rate.den
          /\ stats.mapping_rate.den > 0
          /\ stats.total_postal_codes = 0 => stats.mapping_rate.num = 0

\* statistics of a table with mapped and unmapped records were returned
C18_Witness ==
    /\ stats.status = "returned"
    /\ stats.mapped_postal_codes > 0
    /\ stats.unmapped_postal_codes > 0
    /\ stats.mapping_rate.num > 0
    /\ stats.mapping_rate.num < 100 * stats.mapping_rate.den

\* C19 as stated: a call of reset_mapping returns, every record's
\* weather_area_id is null afterwards (so that the statistics report no
\* mapped record), and reset_count is the number of records that were
\* mapped before the call.
C19_ResetClearsAll ==
    reset.status # "none" =>
        /\ reset.status = "success"
        /\ MappedCount(db) = 0
        /\ reset.reset_count = MappedCount(reset.before)
        /\ stats.status = "returned" => stats.mapped_postal_codes = 0

\* C20 as stated: a call of reset_mapping on a table whose records are all
\* unmapped changes nothing, completes without error and returns a
\* reset_count of 0.
C20_ResetIdempotent ==
    (reset.status # "none" /\ MappedCount(reset.before) = 0) =>
        /\ db = reset.before
        /\ reset.status = "success"
        /\ reset.reset_count = 0

(***************************************************************************)
(* Row order, prefecture and empty names in the matcher                    *)
(***************************************************************************)
\* the label the dict holds for the record's ward ("" without ward)
FlatLabel == IF HasWard THEN RegionMappingGet(WardName) ELSE <<>>

\* the regions of the prefecture that satisfy the predicate of tier k for
\* the call's record
Satisfying(k) ==
    LET city == probe.postal_code.city
        named(n) == {r \in Division : probe.was[r].city = n}
        holding(n) == {r \in Division : LikeContains(probe.was[r].city, n)}
        both == {r \in WithCityName : Contains(probe.was[r].city, FlatLabel)}
        upper == {r \in Division : Contains(probe.was[r].city, UpperTsushima)}
        lower == {r \in Division : Contains(probe.was[r].city, LowerTsushima)}
    IN  CASE k = 1 -> named(city)
          [] k = 2 -> named(NormalizeCityName(city))
          [] k = 3 -> holding(city)
          [] k = 4 -> ContainedInPostalCity
          [] k = 5 -> {r \in Division : NormalizeCityName(probe.was[r].city)
                                           = NormalizeCityName(city)}
          [] k = 6 -> IF FlatLabel # <<>> /\ both # {} THEN both ELSE WithCityName
          [] k = 7 -> IF named(RemoveCountyPrefix(city)) # {}
                      THEN named(RemoveCountyPrefix(city))
                      ELSE holding(RemoveCountyPrefix(city))
          [] k = 8 -> named(NormalizeCharacterVariants(city))
          [] k = 9 -> IF NorthernTown /\ upper # {} THEN upper ELSE lower

\* C22 as stated: when several regions of the prefecture satisfy the
\* predicate of the tier that decides, the region returned is the one that
\* was imported first (the one with the least id).
C22_FirstInImportOrder ==
    (Matched /\ probe.tier # 0) =>
        /\ probe.row \in Satisfying(probe.tier)
        /\ \A r \in Satisfying(probe.tier) :
              probe.weather_area_id <= probe.was[r].id

\* C24 as stated: the label tier 6 expects for a ward is the one the table
\* lists under the ward's own city, whatever other cities list for a ward
\* of the same name.
C24_WardTablePerCity ==
    (/\ Matched
     /\ Tier6Evaluated(probe.postal_code, probe.was)
     /\ HasWard
     /\ CityRegionLabel(WardCityName, WardName) # <<>>)
    => probe.expected_region = CityRegionLabel(WardCityName, WardName)

\* C25: the id line 51 assigns is the id of a region of the table whose
\* prefecture is the postal record's prefecture; whatever tier decides, the
\* region returned is one of the record's prefecture.
C25_SamePrefecture ==
    Matched =>
        /\ probe.tier # 0 =>
              /\ probe.row \in 1..Len(probe.was)
              /\ probe.was[probe.row].prefecture = probe.postal_code.prefecture
              /\ probe.weather_area_id = probe.was[probe.row].id
        /\ probe.tier = 0 => probe.weather_area_id = NULL
        /\ probe.weather_area_id # NULL =>
              \E r \in 1..Len(probe.was) :
                  /\ probe.was[r].id = probe.weather_area_id
                  /\ probe.was[r].prefecture = probe.postal_code.prefecture

\* a region of another prefecture with the same city name comes first in
\* the table and the region of the record's prefecture is returned
C25_Witness ==
    /\ Matched
    /\ probe.tier # 0
    /\ probe.row = 2
    /\ probe.was[1].prefecture # probe.postal_code.prefecture
    /\ probe.was[1].city = probe.was[2].city
    /\ probe.was[2].prefecture = probe.postal_code.prefecture
    /\ probe.weather_area_id = probe.was[2].id

\* C27 as stated: a region whose city is the empty string is never
\* returned for a postal record whose city is not empty.
C27_EmptyCityNeverSelected ==
    (Matched /\ probe.tier # 0 /\ probe.postal_code.city # <<>>)
    => MatchedCity # <<>>

\* C28 as stated: a Tsushima record whose town contains a northern-list
\* town name is mapped by tier 9 to a region containing the upper-Tsushima
\* name or is left unmapped; it is never mapped to a lower-Tsushima region.
C28_NorthNeverSouth ==
    (/\ Matched
     /\ probe.postal_code.prefecture = Nagasaki
     /\ probe.postal_code.city = TsushimaCity
     /\ NorthernTown
     /\ probe.tier = 9)
    => /\ Contains(MatchedCity, UpperTsushima)
       /\ ~Contains(MatchedCity, LowerTsushima)

(***************************************************************************)
(* The counters and the persisted state of a run                           *)
(***************************************************************************)
\* C26 as stated: when a run returns, its mapped counter is the number of
\* backlog records whose weather_area_id is non-null in the committed
\* table, also after failed and rolled-back commits.
C26_MappedIsPersisted ==
    pc = "done" =>
        result.mapped = Cardinality({r \in Rows(backlog) : db[r] # NULL})

\* C29: a run without failure that directly follows a run without failure
\* maps no record, processes exactly the records the first run did not
\* find and does not find them either, and leaves the committed table as
\* the first run left it.
C29_SecondRunFixpoint ==
    (pc = "done" /\ ~runFailed /\ prev.clean) =>
        /\ result.mapped = 0
        /\ result.errors = 0
        /\ result.total_processed = prev.not_found
        /\ result.not_found = prev.not_found
        /\ db = runStartDb

\* the first run mapped records and left others not found; the second run
\* has returned
C29_Witness ==
    /\ pc = "done"
    /\ ~runFailed
    /\ prev.clean
    /\ prev.not_found > 0
    /\ result.not_found = prev.not_found
    /\ \E r \in Records : origDb[r] = NULL /\ db[r] # NULL

(***************************************************************************)
(* The CLI command "mapping" (cli.py, lines 94-114): it runs               *)
(* map_postal_codes_to_weather_areas on a new session and prints three     *)
(* values of the dict the run returns.  CliSpec is the run followed by the *)
(* command's output.                                                       *)
(***************************************************************************)
\* d.get(key, default) on the returned dict
DictGet(d, key, default) == IF key \in DOMAIN d THEN d[key] ELSE default

\* lines 104-107: the three values the command prints
CliPrint ==
    /\ pc = "done"
    /\ cli.status = "none"
    /\ cli' = [status |-> "printed",
               mapped |-> DictGet(result, "mapped_count", 0),
               not_found |-> DictGet(result, "not_found_count", 0),
               errors |-> DictGet(result, "error_count", 0)]
    /\ UNCHANGED <<others, prev, db, mem, areas_readable, pc, backlog, i, batch,
                   j, count, result, calls, tally, raised, commits, runStartDb,
                   origDb, runFailed, prevFailed>>

\* lines 109-111: the run raised; the command prints the error and exits
CliFails ==
    /\ pc = "raised"
    /\ cli.status = "none"
    /\ cli' = [status |-> "error"]
    /\ UNCHANGED <<others, prev, db, mem, areas_readable, pc, backlog, i, batch,
                   j, count, result, calls, tally, raised, commits, runStartDb,
                   origDb, runFailed, prevFailed>>

CliNext == LoadBacklog \/ LoadFails \/ RunStep \/ CliPrint \/ CliFails

CliSpec == Init /\ [][CliNext]_vars

\* C23 as stated: the three values the command prints after a run are the
\* mapped, not_found and errors counters the run returned.
C23_CliPrintsCounters ==
    cli.status = "printed" =>
        /\ cli.mapped = result.mapped
        /\ cli.not_found = result.not_found
        /\ cli.errors = result.errors

(***************************************************************************)
(* The order of the backlog.  The select of lines 30-32 has no ORDER BY:   *)
(* OrderSpec is the run without failures (weather_areas readable, no       *)
(* matcher or commit failure) on a backlog that comes back in any order.   *)
(***************************************************************************)
\* the orders short of the last record: every order of all but the last row
OrdersLosing(list) ==
    {[k \in 1..(Len(list) - 1) |-> list[f[k]]] :
        f \in {g \in [1..(Len(list) - 1) -> 1..(Len(list) - 1)] :
                 \A a, b \in 1..(Len(list) - 1) : a # b => g[a] # g[b]}}

\* the orders in which the rows of list can come back from the select
Orders(list) ==
    {[k \in 1..Len(list) |-> list[f[k]]] :
        f \in {g \in [1..Len(list) -> 1..Len(list)] :
                 \A a, b \in 1..Len(list) : a # b => g[a] # g[b]}}

OrderInit == Init /\ areas_readable

\* lines 27-41: the backlog is loaded, in the order the database returns it
LoadBacklogAnyOrder ==
    /\ EnterRun
    /\ backlog' \in Orders(UnmappedPostalCodes(db))
    /\ pc' = "batch"

OrderNext ==
    LoadBacklogAnyOrder \/ NextBatch \/ MatchRecord \/ CommitOk \/ ReturnResult

OrderSpec == OrderInit /\ [][OrderNext]_vars

\* C21: whatever the order in which the backlog is processed, a run without
\* failures leaves every backlog record with the id the matcher returns for
\* it and every other record as it was.
C21_OrderIndependent ==
    pc = "done" =>
        /\ db = Expected(runStartDb)
        /\ \A r \in Rows(backlog) : db[r] = MatchOf[r]
        /\ \A r \in Records \ Rows(backlog) : db[r] = runStartDb[r]

\* a run has returned whose backlog was processed out of table order, over
\* more than one batch, with records mapped
C21_Witness ==
    /\ pc = "done"
    /\ Len(backlog) > BatchSize
    /\ \E k \in 1..(Len(backlog) - 1) : backlog[k] > backlog[k + 1]
    /\ \E r \in Rows(backlog) : db[r] # NULL

(***************************************************************************)
(* Two concurrent runs.  ConcSpec runs map_postal_codes_to_weather_areas   *)
(* once in each of two sessions (two requests of the endpoint of           *)
(* api/postal_codes.py, lines 179-208, each with its own session), without *)
(* failures, interleaved at every step: load, cut of a batch, one record,  *)
(* commit, return.  A session reads the committed table when it selects    *)
(* its backlog; its assignments are pending until its commit, which writes *)
(* the rows it assigned and no others.  Row locks only delay steps, they   *)
(* allow no interleaving that is not among those explored here.            *)
(***************************************************************************)
Sessions == {1, 2}

\* no assignment pending in a session
NonePending == [r \in Records |-> NULL]

\* a session before its run
SessionAtRest ==
    [pc |-> "idle", backlog |-> <<>>, i |-> 0, batch |-> <<>>, j |-> 1,
     pending |-> NonePending, count |-> ZeroCount, result |-> NoResult]

\* the commit writes the session's whole view of the table
CommitWholeView(pending, d) == pending

\* session.commit(): the UPDATEs of the rows assigned since the last commit
CommitPending(pending, d) ==
    [r \in Records |-> IF pending[r] # NULL THEN pending[r] ELSE d[r]]

ConcInit ==
    /\ db \in [Records -> {NULL, StaleArea}]
    /\ mem = db
    /\ areas_readable = TRUE
    /\ pc = "idle"
    /\ backlog = <<>>
    /\ i = 0
    /\ batch = <<>>
    /\ j = 1
    /\ count = ZeroCount
    /\ result = NoResult
    /\ calls = [r \in Records |-> 0]
    /\ tally = [r \in Records |-> ZeroCount]
    /\ raised = {}
    /\ commits = <<>>
    /\ runStartDb = db
    /\ origDb = db
    /\ runFailed = FALSE
    /\ prevFailed = FALSE
    /\ stats = NoStats
    /\ reset = NoReset
    /\ probe = NoProbe
    /\ prev = NoPrev
    /\ cli = NoCli
    /\ conc = [status |-> "running", replaced |-> FALSE,
               session |-> [s \in Sessions |-> SessionAtRest]]

\* what a step of ConcSpec leaves alone
notConc == <<mem, areas_readable, pc, backlog, i, batch, j, count, result,
             calls, tally, raised, commits, runStartDb, origDb, runFailed,
             prevFailed, stats, reset, probe, prev, cli>>

\* lines 27-41 in session s
ConcLoad(s) ==
    /\ conc.session[s].pc = "idle"
    /\ conc' = [conc EXCEPT !.session[s].pc = "batch",
                            !.session[s].backlog = UnmappedPostalCodes(db)]
    /\ UNCHANGED <<db, notConc>>

\* lines 42-43 in session s
ConcNextBatch(s) ==
    /\ conc.session[s].pc = "batch"
    /\ conc.session[s].i < Len(conc.session[s].backlog)
    /\ conc' = [conc EXCEPT
                  !.session[s].pc = "record",
                  !.session[s].batch = Slice(conc.session[s].backlog,
                                             conc.session[s].i),
                  !.session[s].j = 1]
    /\ UNCHANGED <<db, notConc>>

\* lines 46-55 in session s
ConcMatch(s) ==
    /\ conc.session[s].pc = "record"
    /\ conc.session[s].j <= Len(conc.session[s].batch)
    /\ LET r == conc.session[s].batch[conc.session[s].j]
           weather_area_id == FindWeatherAreaForPostalCode(PostalCodes[r], WeatherAreas)
       IN  conc' = [conc EXCEPT
                      !.session[s].j = @ + 1,
                      !.session[s].pending =
                          IF weather_area_id # NULL
                          THEN [@ EXCEPT ![r] = weather_area_id] ELSE @,
                      !.session[s].count =
                          IF weather_area_id # NULL
                          THEN OnMatched(@) ELSE OnNotFound(@)]
    /\ UNCHANGED <<db, notConc>>

\* lines 63-65 in session s; replaced records whether the commit put a
\* different id where the committed table held one
ConcCommit(s) ==
    /\ conc.session[s].pc = "record"
    /\ conc.session[s].j > Len(conc.session[s].batch)
    /\ db' = CommitPending(conc.session[s].pending, db)
    /\ conc' = [conc EXCEPT
                  !.session[s].pc = "batch",
                  !.session[s].i = NextIndex(@),
                  !.session[s].pending = NonePending,
                  !.replaced = @ \/ \E r \in Records :
                                      db[r] # NULL /\ db'[r] # db[r]]
    /\ UNCHANGED notConc

\* lines 71-79 in session s
ConcReturn(s) ==
    /\ conc.session[s].pc = "batch"
    /\ conc.session[s].i >= Len(conc.session[s].backlog)
    /\ conc' = [conc EXCEPT
                  !.session[s].pc = "done",
                  !.session[s].result = Result(conc.session[s].backlog,
                                               conc.session[s].count)]
    /\ UNCHANGED <<db, notConc>>

ConcNext ==
    \E s \in Sessions :
        ConcLoad(s) \/ ConcNextBatch(s) \/ ConcMatch(s) \/ ConcCommit(s) \/ ConcReturn(s)

ConcSpec == ConcInit /\ [][ConcNext]_vars

\* both runs have returned
BothDone == \A s \in Sessions : conc.session[s].pc = "done"

\* C30: with two runs interleaved, no commit replaces a non-null
\* weather_area_id by a different one, every record holds at every moment
\* either what it held at the start or what a single run assigns to it, and
\* when both runs have returned every record holds what a single run would
\* have assigned.
C30_ConcurrentRunsAgree ==
    conc.status = "running" =>
        /\ ~conc.replaced
        /\ \A r \in Records : db[r] \in {origDb[r], Expected(origDb)[r]}
        /\ BothDone => db = Expected(origDb)

\* both runs loaded the same backlog, both assigned the same record and
\* both have returned
C30_Witness ==
    /\ conc.status = "running"
    /\ BothDone
    /\ conc.session[1].backlog = conc.session[2].backlog
    /\ conc.session[1].result.mapped > 0
    /\ conc.session[2].result.mapped > 0
    /\ db # origDb
====
